---- MODULE Spec2Model ----
(***************************************************************************)
(* HttpServerConnection (lib/remote/httpserverconnection.cpp): the         *)
(* per-connection HTTP engine of the Icinga 2 API.                         *)
(*                                                                         *)
(* Every connection runs up to three coroutines on its strand m_IoStrand:  *)
(*   ml  ProcessMessages (the message loop),                               *)
(*   wd  CheckLiveness   (the liveness watchdog),                          *)
(*   sw  the reader spawned by StartStreaming (the streaming watcher).     *)
(* A strand runs one coroutine at a time and a coroutine gives the strand  *)
(* up only where it waits (an async_* call taking yc), so one action of    *)
(* this model is one run of a coroutine from one wait to the next.  An     *)
(* asynchronous operation completes (the Io actions) before the coroutine *)
(* that waits for it is resumed (the Resume actions); other coroutines of  *)
(* the strand may run in between.                                          *)
(*                                                                         *)
(* async_write followed by async_flush is one wait of the model: both      *)
(* throw on failure and nothing is done in between.                        *)
(***************************************************************************)
EXTENDS Integers, Sequences, FiniteSets, TLC

VARIABLES
    conn,       \* the HttpServerConnection objects: connection id -> its state
    now,        \* Utility::GetTime(), in seconds
    lockable,   \* m_WaitGroup->IsLockable(): the process still accepts requests
    cors,       \* the ApiListener has a non-empty access_control_allow_origin
    directory   \* the ApiUser objects: user name -> its permissions array

vars == <<conn, now, lockable, cors, directory>>

-----------------------------------------------------------------------------
(* Bounds of the model *)

\* connections served by the process in SpecGate
NumConns == 2
\* slots of the CpuBoundWork semaphore (its size is configuration)
NumSlots == 1
\* the clock stops here
MaxTime == 17
\* longest permissions array of a user in SpecLimit
MaxPerms == 2

(* Program constants *)

\* CheckLiveness: m_CheckLivenessTimer.expires_from_now(seconds(5))
LivenessPeriod == 5
\* CheckLiveness: m_Seen < Utility::GetTime() - 10
IdleThreshold == 10
\* std::numeric_limits<double>::max(), the value of m_Seen while a request
\* is in flight: any number no clock reading comes near
SeenMax == 1000000000
\* EnsureValidBody: size_t maxSize = 1024 * 1024
DefaultMaxSize == 1024 * 1024

-----------------------------------------------------------------------------
(* Strings that are matched as patterns are sequences of path tokens. *)

\* Utility::Match(pattern, text): wildcard match, a star for any run of
\* tokens and a question mark for any one token.
RECURSIVE Match(_, _)
Match(pattern, text) ==
    IF pattern = <<>> THEN text = <<>>
    ELSE IF Head(pattern) = "*"
         THEN Match(Tail(pattern), text)
              \/ (text # <<>> /\ Match(pattern, Tail(text)))
         ELSE /\ text # <<>>
              /\ (Head(pattern) = "?" \/ Head(pattern) = Head(text))
              /\ Match(Tail(pattern), Tail(text))

\* static std::vector<std::pair<String, size_t>> specialContentLengthLimits
specialContentLengthLimits ==
    << [first |-> <<"config", "/", "modify">>, second |-> 512 * 1024 * 1024] >>

\* A permission entry of ApiUser::GetPermissions() is a String or a Dictionary
\* with (or without) a "permission" key.
PermissionString(permissionInfo) ==
    IF permissionInfo.type = "Dictionary"
    THEN permissionInfo.permission      \* Get("permission"), "" when absent
    ELSE permissionInfo.value

\* ApplyLimits with the arguments of Utility::Match swapped
RECURSIVE ApplyLimitsSwapped(_, _, _)
ApplyLimitsSwapped(permission, limits, maxSize) ==
    IF limits = <<>> THEN maxSize
    ELSE LET limitInfo == Head(limits) IN
         IF limitInfo.second <= maxSize
         THEN ApplyLimitsSwapped(permission, Tail(limits), maxSize)
         ELSE IF Match(limitInfo.first, permission)
              THEN ApplyLimitsSwapped(permission, Tail(limits), limitInfo.second)
              ELSE ApplyLimitsSwapped(permission, Tail(limits), maxSize)

\* the inner loop of EnsureValidBody over specialContentLengthLimits
RECURSIVE ApplyLimits(_, _, _)
ApplyLimits(permission, limits, maxSize) ==
    IF limits = <<>> THEN maxSize
    ELSE LET limitInfo == Head(limits) IN
         IF limitInfo.second <= maxSize
         THEN ApplyLimits(permission, Tail(limits), maxSize)
         ELSE IF Match(permission, limitInfo.first)
              THEN ApplyLimits(permission, Tail(limits), limitInfo.second)
              ELSE ApplyLimits(permission, Tail(limits), maxSize)

\* the outer loop of EnsureValidBody over the user's permissions
RECURSIVE ApplyPermissions(_, _)
ApplyPermissions(perms, maxSize) ==
    IF perms = <<>> THEN maxSize
    ELSE ApplyPermissions(Tail(perms),
            ApplyLimits(PermissionString(Head(perms)), specialContentLengthLimits, maxSize))

\* Array::Ptr: a null pointer, or an array and its items
Array(items) == [null |-> FALSE, items |-> items]
NoPermissions == [null |-> TRUE, items |-> <<>>]

\* EnsureValidBody, first block: the value given to parser.body_limit
BodyLimit(permissions) ==
    IF permissions.null THEN DefaultMaxSize
    ELSE ApplyPermissions(permissions.items, DefaultMaxSize)

-----------------------------------------------------------------------------
(* Requests, responses, users *)

\* a null ApiUser::Ptr
NoUser == ""

\* the user directory (ApiUser): the users and their permission arrays
Users == {"root", "guest"}

\* ApiUser::GetPermissions()
GetPermissions(user) == directory[user]

\* The fields of a parsed request the connection reads.  authorization is the
\* user ApiUser::GetByAuthHeader resolves the Authorization header to;
\* override is the verb http::string_to_verb makes of X-Http-Method-Override
\* (verb::unknown when the header is absent or names no verb).
Request(version, method, override, accept, expect, acrm, authorization, close) ==
    [version |-> version, method |-> method, override |-> override,
     accept |-> accept, expect |-> expect, acrm |-> acrm,
     authorization |-> authorization, close |-> close]

\* the parser before it was given a request
NoRequest == Request(0, "unknown", "unknown", FALSE, FALSE, FALSE, NoUser, FALSE)

\* http::response<string_body> as a local of HandleExpect100 or of the catch
\* block of ProcessRequest: nothing sets its Server field
LocalResponse(status) ==
    [status |-> status, server |-> FALSE, wwwAuthenticate |-> FALSE, close |-> FALSE]

\* ProcessMessages: the response of one iteration, response.set(field::server, ...)
NewResponse ==
    [status |-> 200, server |-> TRUE, wwwAuthenticate |-> FALSE, close |-> FALSE]

-----------------------------------------------------------------------------
(* One connection.  Each operator below takes the connection's state k and  *)
(* gives its state after the coroutine ran to its next wait.               *)

\* HttpServerConnection::HttpServerConnection and Start: both coroutines are
\* spawned, neither has run
NewConnection(apiUser, time) ==
    [m_ApiUser |-> apiUser, m_Seen |-> time,
     m_ShuttingDown |-> FALSE, m_HasStartedStreaming |-> FALSE,
     \* ProcessMessages: where it waits, the outcome of the operation it
     \* waits for, and its locals
     ml |-> "spawned", io |-> "none",
     request |-> NoRequest, authenticatedUser |-> NoUser,
     response |-> NewResponse, logMsg |-> FALSE, body_limit |-> -1,
     handlingRequest |-> FALSE,
     \* CheckLiveness and m_CheckLivenessTimer
     wd |-> "spawned", expires |-> 0,
     \* the coroutine of StartStreaming
     sw |-> "none", swIo |-> "none",
     \* what the connection did for its latest request (history)
     written |-> <<>>, accessLog |-> <<>>, bodyRead |-> FALSE, handled |-> FALSE,
     \* what its handler threw: "none", "aborted" (a system_error of
     \* operation_aborted) or "error" (any other std::exception) (history)
     threw |-> "none",
     \* the iteration of the latest request made its logMsg (history)
     staged |-> FALSE,
     \* what the connection did in its life (history)
     disconnectLog |-> 0, removed |-> 0, warned |-> FALSE, evicted |-> FALSE,
     \* when m_Seen became max(), -1 while it is a time (history)
     inFlightSince |-> -1]

\* ApiListener::GetInstance() is set: the listener is the object that accepts
\* the connections and keeps them in its registry
listener == TRUE

\* Disconnect without its m_ShuttingDown guard
DisconnectUnguarded(k, task) ==
    LET d == [k EXCEPT !.m_ShuttingDown = TRUE,
                       !.disconnectLog = @ + 1,
                       !.wd = IF @ = "waiting" THEN "woken" ELSE @]
    IN [d EXCEPT ![task] = "graceful"]

\* HttpServerConnection::Disconnect up to GracefulDisconnect, called as the
\* last statement of coroutine task
Disconnect(k, task) ==
    IF k.m_ShuttingDown
    THEN [k EXCEPT ![task] = "done"]
    ELSE LET d == [k EXCEPT !.m_ShuttingDown = TRUE,
                            !.disconnectLog = @ + 1,
                            \* m_CheckLivenessTimer.cancel() ends a pending
                            \* async_wait and nothing else
                            !.wd = IF @ = "waiting" THEN "woken" ELSE @]
         IN [d EXCEPT ![task] = "graceful"]

\* Disconnect after GracefulDisconnect returned
DisconnectCompleted(k, task) ==
    [k EXCEPT ![task] = "done",
              !.removed = IF listener THEN @ + 1 ELSE @]

\* The stream was shut down: a Disconnect ran and its GracefulDisconnect
\* returned
Closed(k) ==
    k.m_ShuttingDown /\ k.ml # "graceful" /\ k.wd # "graceful" /\ k.sw # "graceful"

\* Defer addRespCode, run when the iteration's scope is left
AddRespCode(k) ==
    IF k.logMsg
    THEN [k EXCEPT !.accessLog = Append(@, k.response.status), !.logMsg = FALSE]
    ELSE k

\* break: leave the loop, then Disconnect(yc)
Break(k) == Disconnect(AddRespCode(k), "ml")

\* Catch that ends the coroutine without Disconnect
CatchWithoutDisconnect(k) ==
    LET u == AddRespCode(k) IN
    [u EXCEPT !.warned = @ \/ ~u.m_ShuttingDown, !.ml = "done"]

\* an exception leaves the loop: catch (const std::exception&), then Disconnect(yc)
Catch(k) ==
    LET u == AddRespCode(k) IN
    Disconnect([u EXCEPT !.warned = @ \/ ~u.m_ShuttingDown], "ml")

\* http::async_write(stream, response, yc); stream.async_flush(yc)
AsyncWrite(k, resp, at) ==
    [k EXCEPT !.written = Append(@, resp), !.ml = at, !.io = "pending"]

\* a stage answers with the iteration's response and closes
Terminal(k, status, wwwAuthenticate) ==
    LET resp == [k.response EXCEPT !.status = status, !.close = TRUE,
                                   !.wwwAuthenticate = wwwAuthenticate]
    IN AsyncWrite([k EXCEPT !.response = resp], resp, "writeTerminal")

\* while (m_WaitGroup->IsLockable()) { m_Seen = GetTime(); ... EnsureValidHeaders
\* up to async_read_header
LoopHead(k, time, isLockable) ==
    IF ~isLockable THEN Disconnect(k, "ml")
    ELSE LET u == [k EXCEPT !.m_Seen = time, !.inFlightSince = -1,
                            !.response = NewResponse, !.body_limit = -1]
         IN IF u.m_ShuttingDown THEN Break(u)
            ELSE [u EXCEPT !.ml = "readHeader", !.io = "pending"]

\* EnsureValidBody up to async_read
EnsureValidBody(k) ==
    LET u == [k EXCEPT !.body_limit = BodyLimit(GetPermissions(k.authenticatedUser))]
    IN IF u.m_ShuttingDown THEN Break(u)
       ELSE [u EXCEPT !.ml = "readBody", !.io = "pending", !.bodyRead = TRUE]

\* EnsureAuthenticatedUser without the WWW-Authenticate field
EnsureAuthenticatedUserNoChallenge(k) ==
    IF k.authenticatedUser = NoUser
    THEN Terminal(k, 401, FALSE)
    ELSE EnsureValidBody(k)

EnsureAuthenticatedUser(k) ==
    IF k.authenticatedUser = NoUser
    THEN Terminal(k, 401, TRUE)
    ELSE EnsureValidBody(k)

\* EnsureAcceptHeader that looks at POST only
EnsureAcceptHeaderPostOnly(k) ==
    IF k.request.method = "POST" /\ ~k.request.accept
    THEN Terminal(k, 400, FALSE)
    ELSE EnsureAuthenticatedUser(k)

EnsureAcceptHeader(k) ==
    IF k.request.method # "GET" /\ ~k.request.accept
    THEN Terminal(k, 400, FALSE)
    ELSE EnsureAuthenticatedUser(k)

HandleAccessControl(k, allowOrigin) ==
    IF allowOrigin /\ k.request.method = "OPTIONS" /\ k.request.acrm
    THEN Terminal(k, 200, FALSE)
    ELSE EnsureAcceptHeader(k)

\* ProcessMessages after HandleExpect100: the user, the log message, the stages
Stages(k, allowOrigin) ==
    LET user == IF k.m_ApiUser # NoUser THEN k.m_ApiUser
                ELSE k.request.authorization
    IN HandleAccessControl([k EXCEPT !.authenticatedUser = user, !.logMsg = TRUE,
                                     !.staged = TRUE],
                           allowOrigin)

\* HandleExpect100 that does not look at the Expect field
HandleExpect100Always(k, allowOrigin) ==
    AsyncWrite(k, LocalResponse(100), "write100")

HandleExpect100(k, allowOrigin) ==
    IF k.request.expect
    THEN AsyncWrite(k, LocalResponse(100), "write100")
    ELSE Stages(k, allowOrigin)

\* HeadersRead without the switch on parser.get().version()
HeadersReadAnyVersion(k, ec, time, allowOrigin) ==
    IF ec = "aborted" THEN Break(k)
    ELSE IF ec = "error"
    THEN Terminal(k, 400, FALSE)
    ELSE LET method == IF k.request.override # "unknown"
                       THEN k.request.override ELSE k.request.method
         IN HandleExpect100([k EXCEPT !.m_Seen = time, !.request.method = method],
                            allowOrigin)

\* EnsureValidHeaders after async_read_header gave ec, and ProcessMessages up
\* to its next wait
HeadersRead(k, ec, time, allowOrigin) ==
    IF ec = "aborted" THEN Break(k)
    ELSE IF ec = "error" \/ k.request.version \notin {10, 11}
    THEN Terminal(k, 400, FALSE)
    ELSE LET method == IF k.request.override # "unknown"
                       THEN k.request.override ELSE k.request.method
         IN HandleExpect100([k EXCEPT !.m_Seen = time, !.request.method = method],
                            allowOrigin)

\* CpuBoundWork handlingRequest (yc), then HttpHandler::ProcessRequest is entered
CpuBoundWork(k, free) ==
    IF free > 0
    THEN [k EXCEPT !.ml = "handler", !.io = "none", !.handlingRequest = TRUE,
                   !.handled = TRUE]
    ELSE [k EXCEPT !.ml = "acquire", !.io = "none"]

\* BodyRead without m_Seen = max()
BodyReadNoSentinel(k, ec, time, free) ==
    IF ec = "aborted" THEN Break(k)
    ELSE IF ec = "error" THEN Terminal(k, 400, FALSE)
    ELSE CpuBoundWork(k, free)

\* BodyRead without CpuBoundWork
BodyReadNoSlot(k, ec, time, free) ==
    IF ec = "aborted" THEN Break(k)
    ELSE IF ec = "error" THEN Terminal(k, 400, FALSE)
    ELSE [k EXCEPT !.m_Seen = SeenMax, !.inFlightSince = time,
                   !.ml = "handler", !.io = "none", !.handled = TRUE]

\* EnsureValidBody after async_read gave ec, m_Seen = max(), ProcessRequest
\* up to its first wait
BodyRead(k, ec, time, free) ==
    IF ec = "aborted" THEN Break(k)
    ELSE IF ec = "error" THEN Terminal(k, 400, FALSE)
    ELSE CpuBoundWork([k EXCEPT !.m_Seen = SeenMax, !.inFlightSince = time], free)

\* HandlerReturned without the test of hasStartedStreaming
HandlerReturnedWrites(k, status) ==
    LET u == [k EXCEPT !.handlingRequest = FALSE, !.response.status = status] IN
    AsyncWrite(u, u.response, "writeResponse")

\* HandlerReturned that starts the write of the response and goes on to read
\* the next header without waiting for it
HandlerReturnedPipelined(k, status) ==
    LET u == [k EXCEPT !.handlingRequest = FALSE, !.response.status = status] IN
    IF u.m_HasStartedStreaming THEN Break(u)
    ELSE [AddRespCode(u) EXCEPT !.written = Append(@, u.response),
                                !.ml = "readHeader", !.io = "pending"]

\* ProcessRequest after HttpHandler::ProcessRequest returned
HandlerReturned(k, status) ==
    LET u == [k EXCEPT !.handlingRequest = FALSE, !.response.status = status] IN
    IF u.m_HasStartedStreaming THEN Break(u)
    ELSE AsyncWrite(u, u.response, "writeResponse")

\* HandlerThrew whose CpuBoundWork outlives the try block
HandlerThrewKeepsSlot(k, status, aborted) ==
    LET u == [k EXCEPT !.response.status = status,
                       !.threw = IF aborted THEN "aborted" ELSE "error"] IN
    IF u.m_HasStartedStreaming THEN Break(u)
    ELSE IF aborted THEN Catch(u)
    ELSE AsyncWrite(u, LocalResponse(500), "writeResponse")

\* HandlerThrew that answers operation_aborted with a 500 as well
HandlerThrewAnswersAborted(k, status, aborted) ==
    LET u == [k EXCEPT !.handlingRequest = FALSE, !.response.status = status,
                       !.threw = IF aborted THEN "aborted" ELSE "error"] IN
    IF u.m_HasStartedStreaming THEN Break(u)
    ELSE AsyncWrite(u, LocalResponse(500), "writeResponse")

\* ProcessRequest: catch (const std::exception& ex)
HandlerThrew(k, status, aborted) ==
    LET u == [k EXCEPT !.handlingRequest = FALSE, !.response.status = status,
                       !.threw = IF aborted THEN "aborted" ELSE "error"] IN
    IF u.m_HasStartedStreaming THEN Break(u)
    ELSE IF aborted THEN Catch(u)
    ELSE AsyncWrite(u, LocalResponse(500), "writeResponse")

\* KeepAlive that does not look at the version of the request
KeepAliveAnyVersion(k, time, isLockable) ==
    IF k.request.close
    THEN Break(k)
    ELSE LoopHead(AddRespCode(k), time, isLockable)

\* ProcessRequest returned true: the end of the loop body
KeepAlive(k, time, isLockable) ==
    IF k.request.version # 11 \/ k.request.close
    THEN Break(k)
    ELSE LoopHead(AddRespCode(k), time, isLockable)

\* HttpServerConnection::StartStreaming, called by a handler
StartStreaming(k) ==
    [k EXCEPT !.m_HasStartedStreaming = TRUE, !.sw = "spawned"]

\* StreamingRead that ends without Disconnect
StreamingReadNoDisconnect(k) ==
    IF k.sw = "spawned"
    THEN IF ~k.m_ShuttingDown
         THEN [k EXCEPT !.sw = "reading", !.swIo = "pending"]
         ELSE [k EXCEPT !.sw = "done"]
    ELSE IF k.swIo = "ok"
         THEN [k EXCEPT !.swIo = "pending"]
         ELSE [k EXCEPT !.swIo = "none", !.sw = "done"]

\* the coroutine of StartStreaming: its first run, and its runs after a read
StreamingRead(k) ==
    IF k.sw = "spawned"
    THEN IF ~k.m_ShuttingDown
         THEN [k EXCEPT !.sw = "reading", !.swIo = "pending"]
         ELSE [k EXCEPT !.sw = "done"]
    ELSE IF k.swIo = "ok"
         THEN [k EXCEPT !.swIo = "pending"]
         ELSE Disconnect([k EXCEPT !.swIo = "none"], "sw")

\* ArmTimer with twice the period
ArmTimerSlow(k, time) ==
    [k EXCEPT !.wd = "waiting", !.expires = time + 2 * LivenessPeriod]

\* CheckLiveness: expires_from_now(seconds(5)); async_wait(yc[ec])
ArmTimer(k, time) ==
    [k EXCEPT !.wd = "waiting", !.expires = time + LivenessPeriod]

\* CheckLiveness: one turn of its loop after async_wait returned
CheckLiveness(k, time) ==
    IF k.m_ShuttingDown THEN [k EXCEPT !.wd = "done"]
    ELSE IF k.m_Seen < time - IdleThreshold
         THEN Disconnect([k EXCEPT !.evicted = TRUE], "wd")
         ELSE ArmTimer(k, time)

-----------------------------------------------------------------------------
(* Inputs *)

String(value) == [type |-> "String", value |-> value]
Dictionary(permission) == [type |-> "Dictionary", permission |-> permission]

\* the users of the specifications that are not about permissions
DefaultDirectory ==
    [u \in Users |->
        IF u = "root" THEN Array(<< String(<<"*">>) >>)
        ELSE Array(<< String(<<"objects", "/", "query", "/", "*">>) >>)]

\* the permissions a user of SpecLimit may hold: bare strings and
\* dictionaries, with and without wildcards, and a dictionary that has no
\* "permission" key
PermissionPatterns ==
    { <<"config", "/", "modify">>, <<"config", "/", "*">>, <<"*">>,
      <<"config", "/", "query">>, <<>> }

PermissionInfos ==
    {String(p) : p \in PermissionPatterns \ {<<>>}}
        \cup {Dictionary(p) : p \in PermissionPatterns}

PermissionArrays ==
    {NoPermissions}
        \cup {Array(items) : items \in UNION {[1..n -> PermissionInfos] : n \in 0..MaxPerms}}

\* every request the connection tells apart
Requests ==
    { Request(v, m, o, a, e, p, u, cl) :
        v \in {10, 11, 20}, m \in {"GET", "POST", "OPTIONS"},
        o \in {"unknown", "GET"}, a \in BOOLEAN, e \in BOOLEAN,
        p \in BOOLEAN, u \in {NoUser, "guest"}, cl \in BOOLEAN }

\* the requests of the specifications that let the clock run or serve
\* several connections
FewRequests ==
    { r \in Requests : /\ r.version = 11 /\ r.override = "unknown" /\ ~r.acrm
                       /\ r.method = "GET" /\ r.accept
                       /\ r.authorization = NoUser }

\* the requests of the specification of the CpuBoundWork semaphore
GateRequests ==
    { r \in FewRequests : ~r.expect }

\* the statuses a handler leaves in the response
HandlerStatus == {200, 404}

\* the slots of the CpuBoundWork semaphore nobody holds
FreeSlots == NumSlots - Cardinality({c \in DOMAIN conn : conn[c].handlingRequest})

Resumed(k) == [k EXCEPT !.io = "none"]

Update(c, k) ==
    /\ conn' = [conn EXCEPT ![c] = k]
    /\ UNCHANGED <<now, lockable, cors, directory>>

-----------------------------------------------------------------------------
(* ProcessMessages *)

\* the coroutine spawned by Start runs for the first time
ProcessMessages(c) ==
    /\ conn[c].ml = "spawned"
    /\ Update(c, LoopHead(conn[c], now, lockable))

\* async_read_header completes: the parser holds the header of a request
HeaderArrives(c, req) ==
    /\ conn[c].ml = "readHeader" /\ conn[c].io = "pending"
    /\ ~Closed(conn[c])
    /\ Update(c, [conn[c] EXCEPT !.io = "ok", !.request = req,
                     !.authenticatedUser = NoUser, !.written = <<>>,
                     !.accessLog = <<>>, !.bodyRead = FALSE, !.handled = FALSE,
                     !.threw = "none", !.staged = FALSE])

\* async_read_header completes with an error code
HeaderFails(c, ec) ==
    /\ conn[c].ml = "readHeader" /\ conn[c].io = "pending"
    /\ Update(c, [conn[c] EXCEPT !.io = ec, !.request = NoRequest,
                     !.authenticatedUser = NoUser, !.written = <<>>,
                     !.accessLog = <<>>, !.bodyRead = FALSE, !.handled = FALSE,
                     !.threw = "none", !.staged = FALSE])

\* async_read of the body completes
BodyCompletes(c, ec) ==
    /\ conn[c].ml = "readBody" /\ conn[c].io = "pending"
    /\ ec = "ok" => ~Closed(conn[c])
    /\ Update(c, [conn[c] EXCEPT !.io = ec])

\* async_write and async_flush complete, or one of them throws
WriteCompletes(c, ec) ==
    /\ conn[c].ml \in {"write100", "writeTerminal", "writeResponse"}
    /\ conn[c].io = "pending"
    /\ ec = "ok" => ~Closed(conn[c])
    /\ Update(c, [conn[c] EXCEPT !.io = ec])

\* the coroutine is resumed after async_read_header
ResumeHeaders(c) ==
    /\ conn[c].ml = "readHeader" /\ conn[c].io \in {"ok", "error", "aborted"}
    /\ Update(c, HeadersRead(Resumed(conn[c]), conn[c].io, now, cors))

\* the coroutine is resumed after the interim response was written
ResumeExpect100(c) ==
    /\ conn[c].ml = "write100" /\ conn[c].io \in {"ok", "error"}
    /\ Update(c, IF conn[c].io = "ok" THEN Stages(Resumed(conn[c]), cors)
                 ELSE Catch(Resumed(conn[c])))

\* the coroutine is resumed after a stage's closing response was written
ResumeTerminal(c) ==
    /\ conn[c].ml = "writeTerminal" /\ conn[c].io \in {"ok", "error"}
    /\ Update(c, IF conn[c].io = "ok" THEN Break(Resumed(conn[c]))
                 ELSE Catch(Resumed(conn[c])))

\* the coroutine is resumed after async_read of the body
ResumeBody(c) ==
    /\ conn[c].ml = "readBody" /\ conn[c].io \in {"ok", "error", "aborted"}
    /\ Update(c, BodyRead(Resumed(conn[c]), conn[c].io, now, FreeSlots))

\* CpuBoundWork: a waiting coroutine gets a slot
AcquireSlot(c) ==
    /\ conn[c].ml = "acquire"
    /\ FreeSlots > 0
    /\ Update(c, CpuBoundWork(conn[c], FreeSlots))

\* the handler calls HttpServerConnection::StartStreaming
HandlerStartsStreaming(c) ==
    /\ conn[c].ml = "handler"
    /\ ~conn[c].m_HasStartedStreaming
    /\ Update(c, StartStreaming(conn[c]))

\* HttpHandler::ProcessRequest returns
HandlerReturns(c, status) ==
    /\ conn[c].ml = "handler"
    /\ Update(c, HandlerReturned(conn[c], status))

\* HttpHandler::ProcessRequest throws a std::exception
HandlerThrows(c, status, aborted) ==
    /\ conn[c].ml = "handler"
    /\ Update(c, HandlerThrew(conn[c], status, aborted))

\* the coroutine is resumed after the response (or the 500) was written
ResumeResponse(c) ==
    /\ conn[c].ml = "writeResponse" /\ conn[c].io \in {"ok", "error"}
    /\ Update(c, IF conn[c].io = "ok" THEN KeepAlive(Resumed(conn[c]), now, lockable)
                 ELSE Catch(Resumed(conn[c])))

\* GracefulDisconnect returns to the Disconnect of coroutine task
DisconnectReturns(c, task) ==
    /\ conn[c][task] = "graceful"
    /\ Update(c, DisconnectCompleted(conn[c], task))

-----------------------------------------------------------------------------
(* CheckLiveness and the coroutine of StartStreaming *)

\* the coroutine spawned by Start runs for the first time; the strand runs
\* what Start spawned in the order it spawned it
StartLiveness(c) ==
    /\ conn[c].wd = "spawned" /\ conn[c].ml # "spawned"
    /\ Update(c, ArmTimer(conn[c], now))

\* async_wait returns: the timer expired or was cancelled
WakeLiveness(c) ==
    /\ \/ conn[c].wd = "woken"
       \/ conn[c].wd = "waiting" /\ now >= conn[c].expires
    /\ Update(c, CheckLiveness(conn[c], now))

\* async_read_some of the streaming coroutine completes
StreamingReadCompletes(c, ec) ==
    /\ conn[c].sw = "reading" /\ conn[c].swIo = "pending"
    /\ ec = "ok" => ~Closed(conn[c])
    /\ Update(c, [conn[c] EXCEPT !.swIo = ec])

\* the streaming coroutine runs: for the first time, or after a read
ResumeStreaming(c) ==
    /\ \/ conn[c].sw = "spawned"
       \/ conn[c].sw = "reading" /\ conn[c].swIo \in {"ok", "error"}
    /\ Update(c, StreamingRead(conn[c]))

-----------------------------------------------------------------------------
(* The environment *)

\* A second passes.  A coroutine that can run does so before time passes:
\* the first runs of what was spawned, the return of async_wait, and the
\* resumption after an operation that has completed.
Tick ==
    /\ now < MaxTime
    /\ \A c \in DOMAIN conn :
        /\ conn[c].ml # "spawned" /\ conn[c].wd # "spawned"
        /\ conn[c].wd # "woken"
        /\ conn[c].wd = "waiting" => now < conn[c].expires
        /\ conn[c].io \notin {"ok", "error", "aborted"}
        /\ conn[c].sw # "spawned"
        /\ conn[c].swIo \notin {"ok", "error"}
    /\ now' = now + 1
    /\ UNCHANGED <<conn, lockable, cors, directory>>

\* the wait group is joined: IsLockable() is false from now on
StopAccepting ==
    /\ lockable
    /\ lockable' = FALSE
    /\ UNCHANGED <<conn, now, cors, directory>>

-----------------------------------------------------------------------------
(* Specifications *)

\* ProcessMessages and its transport, but for the arrival of a request
MessageLoop ==
    \/ \E c \in DOMAIN conn : ProcessMessages(c)
    \/ \E c \in DOMAIN conn, ec \in {"error", "aborted"} : HeaderFails(c, ec)
    \/ \E c \in DOMAIN conn, ec \in {"ok", "error", "aborted"} : BodyCompletes(c, ec)
    \/ \E c \in DOMAIN conn, ec \in {"ok", "error"} : WriteCompletes(c, ec)
    \/ \E c \in DOMAIN conn : ResumeHeaders(c)
    \/ \E c \in DOMAIN conn : ResumeTerminal(c)
    \/ \E c \in DOMAIN conn : ResumeBody(c)
    \/ \E c \in DOMAIN conn, status \in HandlerStatus : HandlerReturns(c, status)
    \/ \E c \in DOMAIN conn, status \in HandlerStatus, aborted \in BOOLEAN :
          HandlerThrows(c, status, aborted)
    \/ \E c \in DOMAIN conn : ResumeResponse(c)
    \/ \E c \in DOMAIN conn, task \in {"ml", "wd", "sw"} : DisconnectReturns(c, task)

\* CheckLiveness
Liveness ==
    \/ \E c \in DOMAIN conn : StartLiveness(c)
    \/ \E c \in DOMAIN conn : WakeLiveness(c)

\* StartStreaming and its coroutine
Streaming ==
    \/ \E c \in DOMAIN conn : HandlerStartsStreaming(c)
    \/ \E c \in DOMAIN conn, ec \in {"ok", "error"} : StreamingReadCompletes(c, ec)
    \/ \E c \in DOMAIN conn : ResumeStreaming(c)

\* one connection, the clock, the wait group
Init ==
    /\ conn \in [{1} -> {NewConnection(u, 0) : u \in {NoUser, "root"}}]
    /\ now = 0
    /\ lockable = TRUE
    /\ cors = FALSE
    /\ directory = DefaultDirectory

Next ==
    \/ MessageLoop
    \/ Liveness
    \/ Streaming
    \/ \E c \in DOMAIN conn, req \in FewRequests : HeaderArrives(c, req)
    \/ \E c \in DOMAIN conn : ResumeExpect100(c)
    \/ Tick
    \/ StopAccepting

Spec == Init /\ [][Next]_vars

\* one connection, every request, the wait group, no clock
InitPipeline ==
    /\ conn \in [{1} -> {NewConnection(u, 0) : u \in {NoUser, "root"}}]
    /\ now = 0
    /\ lockable = TRUE
    /\ cors \in BOOLEAN
    /\ directory = DefaultDirectory

NextPipeline ==
    \/ MessageLoop
    \/ Liveness
    \/ Streaming
    \/ \E c \in DOMAIN conn, req \in Requests : HeaderArrives(c, req)
    \/ \E c \in DOMAIN conn : ResumeExpect100(c)
    \/ StopAccepting

SpecPipeline == InitPipeline /\ [][NextPipeline]_vars

\* the connections of a process and the CpuBoundWork semaphore they share
InitGate ==
    /\ conn = [c \in 1..NumConns |-> NewConnection("root", 0)]
    /\ now = 0
    /\ lockable = TRUE
    /\ cors = FALSE
    /\ directory = DefaultDirectory

NextGate ==
    \/ MessageLoop
    \/ \E c \in DOMAIN conn : HandlerStartsStreaming(c)
    \/ \E c \in DOMAIN conn, req \in GateRequests : HeaderArrives(c, req)
    \/ \E c \in DOMAIN conn : AcquireSlot(c)

SpecGate == InitGate /\ [][NextGate]_vars

\* one connection of a user with any permissions array
InitLimit ==
    /\ conn = [c \in {1} |-> NewConnection("root", 0)]
    /\ now = 0
    /\ lockable = TRUE
    /\ cors = FALSE
    /\ directory \in {[u \in Users |-> IF u = "root" THEN a ELSE NoPermissions] :
                        a \in PermissionArrays}

NextLimit ==
    \/ MessageLoop
    \/ \E c \in DOMAIN conn, req \in GateRequests : HeaderArrives(c, req)

SpecLimit == InitLimit /\ [][NextLimit]_vars

\* one connection whose coroutines are resumed when they can be
InitLive ==
    /\ conn = [c \in {1} |-> NewConnection("root", 0)]
    /\ now = 0
    /\ lockable = TRUE
    /\ cors = FALSE
    /\ directory = DefaultDirectory

NextLive ==
    \/ MessageLoop
    \/ Liveness
    \/ Streaming
    \/ \E c \in DOMAIN conn, req \in GateRequests : HeaderArrives(c, req)

\* the strand runs a coroutine whose wait is over
Fairness ==
    /\ WF_vars(\E c \in DOMAIN conn : ResumeStreaming(c))
    /\ WF_vars(\E c \in DOMAIN conn, task \in {"ml", "wd", "sw"} : DisconnectReturns(c, task))

SpecLive == InitLive /\ [][NextLive]_vars /\ Fairness

-----------------------------------------------------------------------------
(* Properties *)

\* the responses written for the latest request, the interim ones left out
Finals(k) ==
    {k.written[i] : i \in {j \in 1..Len(k.written) : k.written[j].status # 100}}

\* the parser holds a request
Parsed(k) == k.request.version # 0

\* ProcessMessages has left its loop
LoopLeft(k) == k.ml \in {"graceful", "done"}

\* HandleAccessControl answers the request as a CORS preflight
Preflight(k) == cors /\ k.request.method = "OPTIONS" /\ k.request.acrm

\* neither the transport nor the Authorization header gives a user
Unauthenticated(k) ==
    Parsed(k) /\ k.m_ApiUser = NoUser /\ k.request.authorization = NoUser

\* C1: however many coroutines call Disconnect, and wherever they wait, the
\* connection logs its disconnect once, exactly when m_ShuttingDown is set
\* (which is never reset), and RemoveHttpClient is called once, exactly when
\* the one Disconnect that did the work has returned.
DisconnectIsIdempotent ==
    \A c \in DOMAIN conn :
        /\ conn[c].disconnectLog = (IF conn[c].m_ShuttingDown THEN 1 ELSE 0)
        /\ conn[c].removed = (IF Closed(conn[c]) THEN 1 ELSE 0)

\* C1 witness: the watchdog evicted the connection, ProcessMessages called
\* Disconnect as well, and both have returned.
DisconnectedTwice ==
    \E c \in DOMAIN conn :
        /\ conn[c].evicted /\ conn[c].ml = "done" /\ conn[c].wd = "done"
        /\ conn[c].disconnectLog = 1 /\ conn[c].removed = 1

\* C2: CheckLiveness never calls Disconnect while m_Seen is the in-flight
\* value, that is from the end of the body read until the response is
\* written, or for good once the loop was left with a request in flight.
NoEvictionInFlight ==
    [][\A c \in DOMAIN conn :
          (conn'[c].evicted /\ ~conn[c].evicted)
              => /\ conn[c].m_Seen # SeenMax
                 /\ conn[c].ml \notin {"acquire", "handler", "writeResponse"}]_vars

\* C2 witness: a request is in flight for longer than the idle threshold and
\* a watchdog period, and the connection is not shut down.
LongInFlight ==
    \E c \in DOMAIN conn :
        /\ conn[c].m_Seen = SeenMax /\ conn[c].inFlightSince >= 0
        /\ now - conn[c].inFlightSince > IdleThreshold + LivenessPeriod
        /\ ~conn[c].m_ShuttingDown /\ conn[c].wd = "waiting"

\* C3: a connection that is not shut down and has no request in flight was
\* active within the last 10 + 5 seconds: the watchdog evicts it no later
\* than one period after it was idle for 10 seconds.
EvictedWithinPeriod ==
    \A c \in DOMAIN conn :
        (~conn[c].m_ShuttingDown /\ conn[c].m_Seen # SeenMax)
            => now - conn[c].m_Seen <= IdleThreshold + LivenessPeriod

\* C3 witness: the watchdog evicts a connection a full period after it was
\* idle for 10 seconds.
EvictedAtLatest ==
    \E c \in DOMAIN conn :
        /\ conn[c].evicted /\ conn[c].wd = "graceful"
        /\ now - conn[c].m_Seen = IdleThreshold + LivenessPeriod

\* C4 as claimed: a request without a user is answered 401 with
\* WWW-Authenticate whatever else it is, and is not handled.
UnauthenticatedAlways401 ==
    \A c \in DOMAIN conn :
        Unauthenticated(conn[c])
            => /\ ~conn[c].handled
               /\ \A r \in Finals(conn[c]) : r.status = 401 /\ r.wwwAuthenticate

\* what the stages before EnsureAuthenticatedUser answer, if they do
StatusBeforeAuthentication(k) ==
    IF k.request.version \notin {10, 11} THEN 400
    ELSE IF Preflight(k) THEN 200
    ELSE IF k.request.method # "GET" /\ ~k.request.accept THEN 400
    ELSE 401

\* C4: a request without a user is never handled and its body is never read;
\* its only final response is the 400 or 200 of an earlier stage (unsupported
\* version, CORS preflight, Accept header) and otherwise 401 with
\* WWW-Authenticate, and it is written unless an exception left the loop.
UnauthenticatedIs401 ==
    \A c \in DOMAIN conn :
        Unauthenticated(conn[c])
            => /\ ~conn[c].handled /\ ~conn[c].bodyRead
               /\ \A r \in Finals(conn[c]) :
                     /\ r.status = StatusBeforeAuthentication(conn[c])
                     /\ r.status = 401 => r.wwwAuthenticate
               /\ (LoopLeft(conn[c]) /\ ~conn[c].warned) => Finals(conn[c]) # {}

\* C4 witness: a request without a user passed the earlier stages and was
\* answered 401.
Answered401 ==
    \E c \in DOMAIN conn :
        /\ Unauthenticated(conn[c]) /\ conn[c].ml = "done"
        /\ \E r \in Finals(conn[c]) : r.status = 401 /\ r.wwwAuthenticate

\* a request that is not GET (after X-Http-Method-Override) and does not
\* accept application/json, seen by the stages
NonGetWithoutAccept(k) ==
    /\ Parsed(k) /\ ~(k.ml = "readHeader" /\ k.io = "ok")
    /\ k.request.method # "GET" /\ ~k.request.accept

\* what C5 says of such a request
Rejected400(k) ==
    /\ ~k.bodyRead /\ ~k.handled
    /\ \A r \in Finals(k) : r.status = 400 /\ r.close
    /\ k.ml \in {"write100", "writeTerminal", "graceful", "done"}
    /\ (LoopLeft(k) /\ ~k.warned) => Finals(k) # {}

\* C5 as claimed: every non-GET request without Accept: application/json is
\* answered 400, its body is not read, it is not handled and it is the last
\* request of its connection.
NonGetAlways400 ==
    \A c \in DOMAIN conn : NonGetWithoutAccept(conn[c]) => Rejected400(conn[c])

\* C5: the same of every such request but the CORS preflight of a supported
\* version, which HandleAccessControl answers first.
NonGetIs400 ==
    \A c \in DOMAIN conn :
        (/\ NonGetWithoutAccept(conn[c])
         /\ ~(conn[c].request.version \in {10, 11} /\ Preflight(conn[c])))
            => Rejected400(conn[c])

\* C5 witness: a POST of a supported version without the Accept header was
\* answered 400 and the loop was left.
PostAnswered400 ==
    \E c \in DOMAIN conn :
        /\ NonGetWithoutAccept(conn[c]) /\ conn[c].request.version = 11
        /\ conn[c].request.method = "POST" /\ conn[c].ml = "done"
        /\ \E r \in Finals(conn[c]) : r.status = 400

\* C6: a request whose header parses and whose version is neither 1.0 nor 1.1
\* gets a 400 and nothing else, the loop ends, no body read is started and
\* the handler is not called.
UnsupportedVersionIs400 ==
    \A c \in DOMAIN conn :
        (Parsed(conn[c]) /\ conn[c].request.version \notin {10, 11})
            => /\ ~conn[c].bodyRead /\ ~conn[c].handled
               /\ \/ conn[c].ml = "readHeader" /\ conn[c].io = "ok"
                     /\ conn[c].written = <<>>
                  \/ /\ conn[c].ml \in {"writeTerminal", "graceful", "done"}
                     /\ Len(conn[c].written) = 1
                     /\ conn[c].written[1].status = 400
                     /\ conn[c].written[1].close

\* C6 witness: such a request was answered and the loop was left.
UnsupportedVersionAnswered ==
    \E c \in DOMAIN conn :
        /\ Parsed(conn[c]) /\ conn[c].request.version \notin {10, 11}
        /\ conn[c].request.expect
        /\ conn[c].ml = "done" /\ Len(conn[c].written) = 1

\* the limits of the rules that a permission of the array matches
MatchingLimits(array) ==
    { specialContentLengthLimits[i].second :
        i \in { j \in 1..Len(specialContentLengthLimits) :
                  \E n \in 1..Len(array.items) :
                      Match(PermissionString(array.items[n]),
                            specialContentLengthLimits[j].first) } }

Max(S) == CHOOSE x \in S : \A y \in S : y <= x

\* C7: while the body is read, the parser's body limit is the largest limit
\* of the rules that a permission of the user matches (a bare string or the
\* "permission" of a dictionary), and 1 MiB if there is none; it is never
\* less than 1 MiB.
BodyLimitIsMaxOfMatching ==
    \A c \in DOMAIN conn :
        conn[c].ml = "readBody"
            => LET array == GetPermissions(conn[c].authenticatedUser) IN
               /\ conn[c].body_limit >= DefaultMaxSize
               /\ conn[c].body_limit =
                     Max({DefaultMaxSize}
                         \cup (IF array.null THEN {} ELSE MatchingLimits(array)))

\* C7 witness: the body of a user is read whose second permission, a
\* dictionary with a wildcard, is the one that matches the rule.
RaisedByDictionary ==
    \E c \in DOMAIN conn :
        /\ conn[c].ml = "readBody"
        /\ conn[c].body_limit = 512 * 1024 * 1024
        /\ LET array == GetPermissions(conn[c].authenticatedUser) IN
           /\ ~array.null /\ Len(array.items) = 2
           /\ array.items[1] = String(<<"config", "/", "query">>)
           /\ array.items[2] = Dictionary(<<"config", "/", "*">>)

\* C8: never more than NumSlots connections hold a slot; a connection is in
\* the handler only with a slot, and one that waits for a slot has none and
\* has not entered the handler.
AtMostNumSlotsHandlers ==
    /\ Cardinality({c \in DOMAIN conn : conn[c].handlingRequest}) <= NumSlots
    /\ \A c \in DOMAIN conn :
        /\ conn[c].ml = "handler" => conn[c].handlingRequest
        /\ conn[c].ml = "acquire" => ~conn[c].handlingRequest /\ ~conn[c].handled

\* C8 witness: every slot is held by a connection in its handler and another
\* connection waits for one.
WaitsForSlot ==
    /\ Cardinality({c \in DOMAIN conn : conn[c].ml = "handler"}) = NumSlots
    /\ \E c \in DOMAIN conn : conn[c].ml = "acquire"

\* C9: once m_HasStartedStreaming is set, ProcessMessages is in the handler
\* or has left its loop, and it wrote no final response for the request: it
\* writes nothing more and reads no further header.
StreamingLoopIsSilent ==
    \A c \in DOMAIN conn :
        conn[c].m_HasStartedStreaming
            => /\ conn[c].ml \in {"handler", "graceful", "done"}
               /\ Finals(conn[c]) = {}

\* C9 witness: the handler of a request that asked for an interim 100 started
\* streaming and ended, and the message loop was left.
StreamingLoopLeft ==
    \E c \in DOMAIN conn :
        /\ conn[c].m_HasStartedStreaming /\ conn[c].ml = "done"
        /\ conn[c].handled /\ conn[c].request.expect

\* C10: when a read of the streaming coroutine has failed, the connection is
\* shut down in the end.
StreamingReclaimed ==
    (conn[1].sw = "reading" /\ conn[1].swIo = "error") ~> conn[1].m_ShuttingDown

\* C10 witness: the streaming coroutine is the one whose Disconnect shuts the
\* connection down.
StreamingDisconnects ==
    conn[1].sw = "graceful" /\ conn[1].ml = "handler"

\* C11: ProcessMessages starts to read a header either when it is spawned or
\* after the response of a request was written whose version is 1.1 and whose
\* Connection field is not "close", and both only while IsLockable() holds:
\* a request of version 1.0 or with Connection: close is the last one.
KeepAliveOnly ==
    [][\A c \in DOMAIN conn :
          (conn'[c].ml = "readHeader" /\ conn[c].ml # "readHeader")
              => /\ lockable
                 /\ \/ conn[c].ml = "spawned"
                    \/ /\ conn[c].ml = "writeResponse" /\ conn[c].io = "ok"
                       /\ conn[c].request.version = 11
                       /\ ~conn[c].request.close]_vars

\* C11 witness: the response of a request was written and the loop reads the
\* header of the next one.
NextRequestRead ==
    \E c \in DOMAIN conn :
        /\ conn[c].ml = "readHeader" /\ conn[c].io = "pending"
        /\ Parsed(conn[c]) /\ Finals(conn[c]) # {}

\* C12: every response the connection writes, the interim 100 and the 500
\* included, carries the Server field.
EveryResponseCarriesServer ==
    \A c \in DOMAIN conn :
        \A i \in 1..Len(conn[c].written) : conn[c].written[i].server

\* where the interim responses are among the responses of the latest request
Interims(k) == {i \in 1..Len(k.written) : k.written[i].status = 100}

LoopExitDisconnects ==
    \A c \in DOMAIN conn :
        LoopLeft(conn[c])
            => conn[c].m_ShuttingDown /\ conn[c].disconnectLog = 1

\* C14 witness: an exception left the loop body of a connection nobody had
\* shut down, and the Disconnect that followed has returned.
LoopLeftByException ==
    \E c \in DOMAIN conn :
        /\ conn[c].warned /\ conn[c].ml = "done"
        /\ conn[c].m_ShuttingDown /\ conn[c].removed = 1

\* C15: once a coroutine other than CheckLiveness has set m_ShuttingDown,
\* CheckLiveness does not wait for its timer: the wait was cancelled, and no
\* new one is started.
WatchdogWokenAtOnce ==
    \A c \in DOMAIN conn :
        (conn[c].m_ShuttingDown /\ ~conn[c].evicted) => conn[c].wd # "waiting"

\* C16: a request gets at most one final response, and ProcessMessages goes
\* back to read a header only from the wait for the write and flush of the
\* one final response of the request before, and only when they succeeded.
SequentialRequests ==
    [][\A c \in DOMAIN conn :
          /\ Len(conn'[c].written) - Cardinality(Interims(conn'[c])) <= 1
          /\ (conn'[c].ml = "readHeader" /\ conn[c].ml \notin {"readHeader", "spawned"})
                => /\ conn[c].ml = "writeResponse" /\ conn[c].io = "ok"
                   /\ Len(conn[c].written) - Cardinality(Interims(conn[c])) = 1]_vars

\* C16 witness: the handler of a request threw, its 500 was written, and the
\* loop reads the header of the next request.
NextRequestAfter500 ==
    \E c \in DOMAIN conn :
        /\ conn[c].ml = "readHeader" /\ conn[c].io = "pending"
        /\ conn[c].handled /\ Len(conn[c].written) = 1
        /\ conn[c].written[1].status = 500

\* the request may be followed by another one on its connection
KeepAliveEligible(k) == k.request.version = 11 /\ ~k.request.close

\* what C17 says of a connection whose handler threw
HandlerFailureOutcome(k) ==
    IF k.m_HasStartedStreaming \/ k.threw = "aborted"
    THEN Finals(k) = {} /\ LoopLeft(k)
    ELSE /\ Len(k.written) - Cardinality(Interims(k)) = 1
         /\ k.written[Len(k.written)].status = 500
         /\ \/ k.ml = "writeResponse"
            \/ LoopLeft(k)
            \/ k.ml = "readHeader" /\ k.io = "pending" /\ KeepAliveEligible(k)

\* C17: when the handler threw after StartStreaming, or threw
\* operation_aborted, nothing is written and the loop is left; when it threw
\* anything else, one 500 is the request's final response, and once it is
\* written the loop goes on if the request is eligible for keep-alive (and
\* the connection and the process still serve requests) and is left if not.
HandlerFailureOutcomes ==
    [][\A c \in DOMAIN conn :
          /\ conn'[c].threw # "none" => HandlerFailureOutcome(conn'[c])
          /\ (/\ conn[c].threw = "error" /\ ~conn[c].m_HasStartedStreaming
              /\ conn[c].ml = "writeResponse" /\ conn[c].io = "ok"
              /\ conn'[c].ml # "writeResponse")
                => IF KeepAliveEligible(conn[c]) /\ lockable /\ ~conn[c].m_ShuttingDown
                   THEN conn'[c].ml = "readHeader"
                   ELSE LoopLeft(conn'[c])]_vars

\* C17 witness: the handler of a request that is not eligible for keep-alive
\* threw, the 500 was written and the loop was left without an exception.
Answered500AndLeft ==
    \E c \in DOMAIN conn :
        /\ conn[c].threw = "error" /\ ~conn[c].m_HasStartedStreaming
        /\ conn[c].request.version = 10
        /\ conn[c].ml = "done" /\ ~conn[c].warned
        /\ \E r \in Finals(conn[c]) : r.status = 500

\* C18: a connection holds a slot of CpuBoundWork exactly while it is in
\* HttpHandler::ProcessRequest: not while it writes the response or the 500,
\* reads the next request or waits for a slot, and not after its loop was
\* left; so the free slots are the slots less the running handlers.
SlotHeldOnlyInHandler ==
    /\ \A c \in DOMAIN conn : conn[c].handlingRequest <=> conn[c].ml = "handler"
    /\ FreeSlots = NumSlots - Cardinality({c \in DOMAIN conn : conn[c].ml = "handler"})

\* C18 witness: the handler of one connection threw, that connection still
\* writes its 500 or has left its loop by the exception, and another
\* connection is in its handler with the slot.
SlotReusedAfterThrow ==
    \E c, d \in DOMAIN conn :
        /\ conn[c].threw # "none" /\ conn[c].handled
        /\ conn[c].ml \in {"writeResponse", "graceful", "done"}
        /\ c # d /\ conn[d].ml = "handler" /\ conn[d].handlingRequest

\* the iteration of the latest request is over
IterationEnded(k) == LoopLeft(k) \/ (k.ml = "readHeader" /\ k.io = "pending")

\* C19: when the iteration of a request that got as far as its logMsg is
\* over, one access-log line was emitted for it, and the status in that line
\* is the status of the final response written to the client, if one was.
AccessLogRecordsFinalStatus ==
    \A c \in DOMAIN conn :
        (conn[c].staged /\ IterationEnded(conn[c]))
            => /\ Len(conn[c].accessLog) = 1
               /\ \A r \in Finals(conn[c]) : conn[c].accessLog[1] = r.status

\* C20: ProcessMessages does not enter HttpHandler::ProcessRequest on a
\* connection whose m_ShuttingDown is set.
NoDispatchAfterShutdown ==
    [][\A c \in DOMAIN conn :
          (conn'[c].ml = "handler" /\ conn[c].ml # "handler")
              => ~conn[c].m_ShuttingDown]_vars

====
